---- MODULE Spec2Model ----
(***************************************************************************)
(* Model of the two converters of the Starkiller asset pipeline:           *)
(*   Assets/convert_to_excel.py      convert_csv_to_excel  ("merger")      *)
(*   Assets/_Temp/excel_to_csv.py    convert_excel_to_csv  ("splitter")    *)
(* Strings are TLA+ strings; Python's str operations are computed          *)
(* character by character.                                                 *)
(***************************************************************************)
EXTENDS Integers, Sequences, FiniteSets, TLC

VARIABLES
    prog,           \* which script the process runs: "merger" | "splitter"
    exitCode,       \* process exit status, -1 while running
    \* ---- convert_csv_to_excel ----
    csv,            \* the input catalog: [exists, hasCategory, cats]
    mpc,            \* position in convert_csv_to_excel
    category_dfs,   \* dict category -> group rows, in insertion order
    ci,             \* number of items of category_dfs already written
    writerOpen,     \* the pd.ExcelWriter is open
    writerOpened,   \* ExcelWriter(excel_file) has been constructed in this run
    book,           \* the workbook under construction: sequence of sheets
    writeLog,       \* the to_excel calls made so far
    \* ---- convert_excel_to_csv ----
    wb,             \* the input workbook: [readable, sheets]
    spc,            \* position in convert_excel_to_csv
    dirExists,      \* output_folder exists
    handleOpen,     \* the pd.ExcelFile handle is open
    k,              \* number of sheets completely converted
    files,          \* output folder: file stem -> content, files of this run
    cleanLog,       \* the clean_filename calls made so far
    result          \* the returned (success, message) tuple

vars == <<prog, exitCode, csv, mpc, category_dfs, ci, writerOpen, writerOpened,
          book, writeLog, wb, spc, dirExists, handleOpen, k, files, cleanLog,
          result>>

mergerVars == <<csv, mpc, category_dfs, ci, writerOpen, writerOpened, book,
                writeLog>>

splitterVars == <<wb, spc, dirExists, handleOpen, k, files, cleanLog, result>>

----------------------------------------------------------------------------
\* Bounds of the model.

MaxRows == 3

MaxSheets == 2

----------------------------------------------------------------------------
\* Python str primitives.

\* The model's strings are ASCII: this character stands for the accented
\* letter U+00E9 (e with acute accent), a letter for str.isalpha() and for \w,
\* with a code point above every ASCII letter.
EAcute == "#"

\* Characters in ascending code point order (str comparison is by code point).
CodePointOrder ==
    " -0123456789ABCDEFGHIJKLMNOPQRSTUVWXYZ_abcdefghijklmnopqrstuvwxyz" \o EAcute

CharAt(s, i) == SubSeq(s, i, i)

Ord(c) == CHOOSE i \in 1..Len(CodePointOrder) : CharAt(CodePointOrder, i) = c

\* s[i:] startswith p
StartsAt(s, p, i) == /\ i + Len(p) - 1 <= Len(s)
                     /\ SubSeq(s, i, i + Len(p) - 1) = p

Contains(s, p) == \E i \in 1..Len(s) : StartsAt(s, p, i)

RECURSIVE ReplaceFrom(_, _, _, _)
ReplaceFrom(s, old, new, i) ==
    IF i > Len(s) THEN ""
    ELSE IF StartsAt(s, old, i)
         THEN new \o ReplaceFrom(s, old, new, i + Len(old))
         ELSE CharAt(s, i) \o ReplaceFrom(s, old, new, i + 1)

\* str.replace(old, new) for a non-empty old: every non-overlapping
\* occurrence, left to right.
StrReplace(s, old, new) == ReplaceFrom(s, old, new, 1)

\* a < b for Python str
RECURSIVE StrLessFrom(_, _, _)
StrLessFrom(a, b, i) ==
    IF i > Len(b) THEN FALSE
    ELSE IF i > Len(a) THEN TRUE
    ELSE IF CharAt(a, i) = CharAt(b, i) THEN StrLessFrom(a, b, i + 1)
    ELSE Ord(CharAt(a, i)) < Ord(CharAt(b, i))

StrLess(a, b) == StrLessFrom(a, b, 1)


----------------------------------------------------------------------------
\* convert_csv_to_excel

\* Category cell texts of the catalogs explored.
CategorySet == {"Core System", "Ship System", "Visual Effects", "Core Files",
                "Content Management", "Introduction", "Sub System System",
                "", "NA"}

\* Cell texts pd.read_csv parses as a missing value (NaN).
NaValues == {"", "NA"}

IsNA(c) == c \in NaValues

\* Number of lines of the 'File Organization Strategy' column.
IntroLen == 14

\* A row of a sheet: <<"intro", i>> is line i of the introduction text,
\* <<"csv", i>> is data row i of the catalog.
IntroRows == [i \in 1..IntroLen |-> <<"intro", i>>]

RECURSIVE SortStr(_)
SortStr(S) ==
    IF S = {} THEN <<>>
    ELSE LET m == CHOOSE x \in S : \A y \in S \ {x} : StrLess(x, y)
         IN  <<m>> \o SortStr(S \ {m})

RECURSIVE FirstSeen(_, _)
FirstSeen(cats, i) ==
    IF i > Len(cats) THEN <<>>
    ELSE IF IsNA(cats[i]) \/ \E j \in 1..(i - 1) : cats[j] = cats[i]
         THEN FirstSeen(cats, i + 1)
         ELSE <<cats[i]>> \o FirstSeen(cats, i + 1)

GroupKeysUnsorted(cats) == FirstSeen(cats, 1)

\* The keys df.groupby('Category') iterates over: sort=True, dropna=True.
GroupKeys(cats) == SortStr({cats[i] : i \in {j \in 1..Len(cats) : ~IsNA(cats[j])}})

\* The rows of one group, in their original relative order.
GroupRows(cats, c) ==
    SelectSeq([i \in 1..Len(cats) |-> <<"csv", i>>], LAMBDA r : cats[r[2]] = c)

SheetNameNoOverride(category) == StrReplace(category, "System", "System Files")

\* Lines 46-52.
SheetName(category) ==
    LET n0 == StrReplace(category, "System", "System Files")
        n1 == IF n0 = "Core Files" THEN "Core System Files" ELSE n0
        n2 == IF n1 = "Visual Effects" THEN "Visual Effects Files" ELSE n1
    IN  IF n2 = "Content Management" THEN "Content Management Files" ELSE n2

\* DataFrame.to_excel(writer, sheet_name, index=False) on a writer in mode
\* 'w': a new sheet is appended; a sheet name already in the book is reused
\* and the cells are written over it from the top.
ToExcel(b, name, rows) ==
    IF \E i \in 1..Len(b) : b[i].name = name
    THEN LET i == CHOOSE j \in 1..Len(b) : b[j].name = name
         IN  [b EXCEPT ![i].rows =
                 rows \o SubSeq(b[i].rows, Len(rows) + 1, Len(b[i].rows))]
    ELSE Append(b, [name |-> name, rows |-> rows])

NoKeyError(c) == FALSE

\* df.groupby('Category') raises KeyError when the column is absent.
KeyError(c) == ~c.hasCategory

\* An error propagates out of convert_csv_to_excel: the with block, when
\* entered, closes the writer; the interpreter exits with status 1.
MergerCrash ==
    /\ mpc' = "crashed"
    /\ writerOpen' = FALSE
    /\ exitCode' = 1

\* Line 12.
ReadCsv ==
    /\ prog = "merger" /\ mpc = "read_csv"
    /\ IF csv.exists
       THEN mpc' = "groupby" /\ UNCHANGED <<writerOpen, exitCode>>
       ELSE MergerCrash
    /\ UNCHANGED <<prog, csv, category_dfs, ci, writerOpened, book, writeLog,
                   splitterVars>>

\* Lines 15-19.
GroupBy ==
    /\ prog = "merger" /\ mpc = "groupby"
    /\ IF ~KeyError(csv)
       THEN /\ category_dfs' =
                  LET keys == GroupKeys(csv.cats)
                  IN  [j \in 1..Len(keys) |->
                          [category |-> keys[j],
                           rows |-> GroupRows(csv.cats, keys[j])]]
            /\ mpc' = "open_writer"
            /\ UNCHANGED <<writerOpen, exitCode>>
       ELSE MergerCrash /\ UNCHANGED category_dfs
    /\ UNCHANGED <<prog, csv, ci, writerOpened, book, writeLog, splitterVars>>

\* Line 22: entering the with block.
OpenWriter ==
    /\ prog = "merger" /\ mpc = "open_writer"
    /\ \/ /\ writerOpen' = TRUE
          /\ writerOpened' = TRUE
          /\ mpc' = "write_intro"
          /\ UNCHANGED exitCode
       \/ MergerCrash /\ UNCHANGED writerOpened
    /\ UNCHANGED <<prog, csv, category_dfs, ci, book, writeLog, splitterVars>>

\* Lines 24-42.
WriteIntro ==
    /\ prog = "merger" /\ mpc = "write_intro"
    /\ \/ /\ book' = ToExcel(book, "Introduction", IntroRows)
          /\ writeLog' = Append(writeLog,
                 [sheet_name |-> "Introduction", category |-> "", intro |-> TRUE])
          /\ mpc' = "write_sheets"
          /\ UNCHANGED <<writerOpen, exitCode>>
       \/ MergerCrash /\ UNCHANGED <<book, writeLog>>
    /\ UNCHANGED <<prog, csv, category_dfs, ci, writerOpened, splitterVars>>

\* Lines 45-54: one iteration of the loop over category_dfs.items().
WriteSheet ==
    /\ prog = "merger" /\ mpc = "write_sheets"
    /\ ci < Len(category_dfs)
    /\ LET item == category_dfs[ci + 1]
           sheet_name == SheetName(item.category)
       IN  \/ /\ book' = ToExcel(book, sheet_name, item.rows)
              /\ writeLog' = Append(writeLog,
                     [sheet_name |-> sheet_name, category |-> item.category,
                      intro |-> FALSE])
              /\ ci' = ci + 1
              /\ UNCHANGED <<mpc, writerOpen, exitCode>>
           \/ MergerCrash /\ UNCHANGED <<book, writeLog, ci>>
    /\ UNCHANGED <<prog, csv, category_dfs, writerOpened, splitterVars>>

\* Leaving the with block (save and close), line 56, normal exit.
CloseWriter ==
    /\ prog = "merger" /\ mpc = "write_sheets"
    /\ ci = Len(category_dfs)
    /\ \/ /\ writerOpen' = FALSE
          /\ mpc' = "done"
          /\ exitCode' = 0
       \/ MergerCrash
    /\ UNCHANGED <<prog, csv, category_dfs, ci, writerOpened, book, writeLog,
                   splitterVars>>

----------------------------------------------------------------------------
\* convert_excel_to_csv

\* Sheet names of the workbooks explored.
SheetNameSet == {"Main Data", "NPC-List", "A B", "A_B", "Caf" \o EAcute \o " 1",
                 "Data"}

\* Characters matched by \w on a str pattern (Unicode): letters of any
\* script, digits and the underscore.
WordChars ==
    "0123456789ABCDEFGHIJKLMNOPQRSTUVWXYZ_abcdefghijklmnopqrstuvwxyz" \o EAcute

AsciiWordChars == "0123456789ABCDEFGHIJKLMNOPQRSTUVWXYZ_abcdefghijklmnopqrstuvwxyz"

IsAsciiWordChar(c) == Contains(AsciiWordChars, c)

IsWordChar(c) == Contains(WordChars, c)

\* re.sub(r'[^\w]', '', s)
RECURSIVE ReSubNonWord(_, _)
ReSubNonWord(s, i) ==
    IF i > Len(s) THEN ""
    ELSE (IF IsWordChar(CharAt(s, i)) THEN CharAt(s, i) ELSE "")
         \o ReSubNonWord(s, i + 1)

clean_filename(filename) ==
    LET cleaned == StrReplace(filename, " ", "_")
    IN  ReSubNonWord(cleaned, 1)

\* Exception classes the steps of the conversion raise, with their text.
ErrText == [OSError           |-> "[Errno 13] Permission denied",
            FileNotFoundError |-> "[Errno 2] No such file or directory",
            ValueError        |-> "Excel file format cannot be determined"]

CaughtOSErrorOnly(cls) == cls \in {"OSError", "FileNotFoundError"}

\* except Exception: every class raised here derives from Exception.
Caught(cls) == cls \in DOMAIN ErrText

ToCsvKeepExisting(fs, stem, content) == fs @@ (stem :> content)

\* df.to_csv(csv_file, index=False, encoding='utf-8'): the file at the path
\* is created or truncated and written.
ToCsv(fs, stem, content) == (stem :> content) @@ fs

SuccessMessageOffByOne(n) ==
    "Successfully converted " \o ToString(n - 1) \o " sheets to CSV"

\* Line 42.
SuccessMessage(n) == "Successfully converted " \o ToString(n) \o " sheets to CSV"

\* The function is left without closing the ExcelFile: the handle stays
\* open unless the collector finalises the object.
HandleAfterReturn(h) == IF h THEN {TRUE, FALSE} ELSE {FALSE}

\* Lines 43-44 for an exception of class cls raised in the try block.
Raise(cls) ==
    IF Caught(cls)
    THEN /\ result' = <<FALSE, "Error converting Excel to CSV: " \o ErrText[cls]>>
         /\ spc' = "returned"
    ELSE /\ result' = result
         /\ spc' = "crashed"

\* Lines 20-21.
MakeDirs ==
    /\ prog = "splitter" /\ spc = "makedirs"
    /\ IF dirExists
       THEN spc' = "open" /\ UNCHANGED <<dirExists, result>>
       ELSE \/ dirExists' = TRUE /\ spc' = "open" /\ UNCHANGED result
            \/ Raise("OSError") /\ UNCHANGED dirExists
    /\ UNCHANGED <<prog, exitCode, wb, handleOpen, k, files, cleanLog,
                   mergerVars>>

\* Lines 24-25.
OpenExcel ==
    /\ prog = "splitter" /\ spc = "open"
    /\ IF wb.readable
       THEN handleOpen' = TRUE /\ spc' = "loop" /\ UNCHANGED result
       ELSE (\E cls \in {"FileNotFoundError", "ValueError"} : Raise(cls))
            /\ UNCHANGED handleOpen
    /\ UNCHANGED <<prog, exitCode, wb, dirExists, k, files, cleanLog,
                   mergerVars>>

\* Lines 28-40: one iteration of the loop over sheet_names.
ConvertSheet ==
    /\ prog = "splitter" /\ spc = "loop"
    /\ k < Len(wb.sheets)
    /\ LET sheet == wb.sheets[k + 1]
           safe_sheet_name == clean_filename(sheet)
           logged == Append(cleanLog, <<sheet, safe_sheet_name>>)
       IN  \/ \* the sheet is read and written
              /\ files' = ToCsv(files, safe_sheet_name,
                                 [sheet |-> sheet, complete |-> TRUE])
              /\ cleanLog' = logged
              /\ k' = k + 1
              /\ UNCHANGED <<spc, result, handleOpen>>
           \/ \* pd.read_excel fails
              /\ Raise("ValueError")
              /\ handleOpen' \in HandleAfterReturn(handleOpen)
              /\ UNCHANGED <<files, cleanLog, k>>
           \/ \* to_csv fails before the file is opened
              /\ Raise("OSError")
              /\ handleOpen' \in HandleAfterReturn(handleOpen)
              /\ cleanLog' = logged
              /\ UNCHANGED <<files, k>>
           \/ \* to_csv fails while writing
              /\ Raise("OSError")
              /\ handleOpen' \in HandleAfterReturn(handleOpen)
              /\ files' = ToCsv(files, safe_sheet_name,
                                 [sheet |-> sheet, complete |-> FALSE])
              /\ cleanLog' = logged
              /\ UNCHANGED k
    /\ UNCHANGED <<prog, exitCode, wb, dirExists, mergerVars>>

\* Line 42.
ReturnSuccess ==
    /\ prog = "splitter" /\ spc = "loop"
    /\ k = Len(wb.sheets)
    /\ result' = <<TRUE, SuccessMessage(Len(wb.sheets))>>
    /\ spc' = "returned"
    /\ handleOpen' \in HandleAfterReturn(handleOpen)
    /\ UNCHANGED <<prog, exitCode, wb, dirExists, k, files, cleanLog,
                   mergerVars>>

\* Lines 50-57, or the interpreter's exit on an uncaught exception.
Main ==
    /\ prog = "splitter" /\ spc \in {"returned", "crashed"}
    /\ exitCode = -1
    /\ exitCode' = IF spc = "returned" /\ result[1] THEN 0 ELSE 1
    /\ UNCHANGED <<prog, wb, spc, dirExists, handleOpen, k, files, cleanLog,
                   result, mergerVars>>

----------------------------------------------------------------------------

RECURSIVE SeqsUpTo(_, _)
SeqsUpTo(S, n) ==
    IF n = 0 THEN {<<>>}
    ELSE LET prev == SeqsUpTo(S, n - 1)
         IN  prev \cup {Append(q, x) : q \in prev, x \in S}

\* A workbook's sheet names are pairwise distinct and there is at least one.
Workbooks ==
    {q \in SeqsUpTo(SheetNameSet, MaxSheets) :
        /\ Len(q) >= 1
        /\ \A i, j \in 1..Len(q) : i # j => q[i] # q[j]}

Catalogs ==
    {[exists |-> FALSE, hasCategory |-> FALSE, cats |-> <<>>],
     [exists |-> TRUE, hasCategory |-> FALSE, cats |-> <<>>]}
    \cup {[exists |-> TRUE, hasCategory |-> TRUE, cats |-> q] :
             q \in SeqsUpTo(CategorySet, MaxRows)}

NoCatalog == [exists |-> FALSE, hasCategory |-> FALSE, cats |-> <<>>]

NoWorkbook == [readable |-> FALSE, sheets |-> <<>>]

InitCommon ==
    /\ exitCode = -1
    /\ mpc = "read_csv"
    /\ category_dfs = <<>>
    /\ ci = 0
    /\ writerOpen = FALSE
    /\ writerOpened = FALSE
    /\ book = <<>>
    /\ writeLog = <<>>
    /\ spc = "makedirs"
    /\ handleOpen = FALSE
    /\ k = 0
    /\ files = <<>>
    /\ cleanLog = <<>>
    /\ result = <<FALSE, "">>

InitMerger ==
    /\ prog = "merger"
    /\ csv \in Catalogs
    /\ wb = NoWorkbook
    /\ dirExists = FALSE
    /\ InitCommon

InitSplitter ==
    /\ prog = "splitter"
    /\ csv = NoCatalog
    /\ wb \in {NoWorkbook} \cup [readable : {TRUE}, sheets : Workbooks]
    /\ dirExists \in BOOLEAN
    /\ InitCommon

Init == InitMerger \/ InitSplitter

Next ==
    \/ ReadCsv
    \/ GroupBy
    \/ OpenWriter
    \/ WriteIntro
    \/ WriteSheet
    \/ CloseWriter
    \/ MakeDirs
    \/ OpenExcel
    \/ ConvertSheet
    \/ ReturnSuccess
    \/ Main

Spec == Init /\ [][Next]_vars

TypeOK ==
    /\ prog \in {"merger", "splitter"}
    /\ exitCode \in {-1, 0, 1}
    /\ mpc \in {"read_csv", "groupby", "open_writer", "write_intro",
                "write_sheets", "done", "crashed"}
    /\ spc \in {"makedirs", "open", "loop", "returned", "crashed"}
    /\ ci \in 0..Len(category_dfs)
    /\ k \in 0..Len(wb.sheets)
    /\ writerOpen \in BOOLEAN /\ writerOpened \in BOOLEAN
    /\ handleOpen \in BOOLEAN /\ dirExists \in BOOLEAN

----------------------------------------------------------------------------
\* Properties of convert_csv_to_excel

\* Indices of the sheets of the book other than Introduction.
CategorySheets == {i \in 1..Len(book) : book[i].name # "Introduction"}

\* Number of times data row r of the catalog occurs in the category sheets.
Copies(r) ==
    Cardinality({<<i, j>> \in CategorySheets \X (1..(MaxRows + IntroLen + 1)) :
                    j <= Len(book[i].rows) /\ book[i].rows[j] = <<"csv", r>>})

\* Index of the first row of the catalog whose Category is c.
FirstRow(c) == CHOOSE i \in 1..Len(csv.cats) :
                   csv.cats[i] = c /\ \A j \in 1..(i - 1) : csv.cats[j] # c

\* Number of occurrences of p in s.
Occurrences(s, p) == Cardinality({i \in 1..Len(s) : StartsAt(s, p, i)})

\* C1: after a run on a catalog that has a Category column, the data rows of
\* the category sheets (all sheets but Introduction) are exactly the rows of
\* the catalog, each once, in their original relative order within a sheet,
\* rows with an empty Category cell included.
C1_RowsConserved ==
    (prog = "merger" /\ mpc = "done" /\ csv.hasCategory) =>
        /\ \A r \in 1..Len(csv.cats) : Copies(r) = 1
        /\ \A i \in CategorySheets :
               /\ \A j \in 1..Len(book[i].rows) : book[i].rows[j][1] = "csv"
               /\ \A j1, j2 \in 1..Len(book[i].rows) :
                      j1 < j2 => book[i].rows[j1][2] < book[i].rows[j2][2]

\* C2 as stated: Introduction is written first and the category sheets
\* follow in the order in which their categories first occur in the catalog.
C2_FirstEncounterOrder ==
    writeLog # <<>> =>
        /\ writeLog[1].intro
        /\ \A i, j \in 2..Len(writeLog) :
               i < j => FirstRow(writeLog[i].category) < FirstRow(writeLog[j].category)

\* C2 amended: Introduction is written first (and is the first sheet of the
\* book) and the category sheets follow in ascending order of the category
\* string; categories parsed as missing get no sheet.
C2_SortedOrder ==
    writeLog # <<>> =>
        /\ writeLog[1].intro /\ writeLog[1].sheet_name = "Introduction"
        /\ book[1].name = "Introduction"
        /\ \A i \in 2..Len(writeLog) :
               /\ ~writeLog[i].intro
               /\ ~IsNA(writeLog[i].category)
               /\ \E r \in 1..Len(csv.cats) : csv.cats[r] = writeLog[i].category
        /\ \A i, j \in 2..Len(writeLog) :
               i < j => StrLess(writeLog[i].category, writeLog[j].category)

\* A finished run whose categories first occur in an order that is not the
\* sorted one.
C2_Witness ==
    /\ prog = "merger" /\ mpc = "done"
    /\ Len(writeLog) = 3
    /\ FirstRow(writeLog[3].category) < FirstRow(writeLog[2].category)

\* C6: on a catalog without a Category column the run ends with an unhandled
\* error and exit status 1 before the workbook writer is constructed: the
\* output file is neither created nor opened and no sheet is written.
C6_NoOutputWithoutCategory ==
    (prog = "merger" /\ csv.exists /\ ~csv.hasCategory) =>
        /\ ~writerOpened /\ ~writerOpen
        /\ book = <<>> /\ writeLog = <<>>
        /\ mpc \in {"read_csv", "groupby", "crashed"}
        /\ mpc = "crashed" => exitCode = 1
        /\ exitCode # 0

C6_Witness ==
    /\ prog = "merger" /\ csv.exists /\ ~csv.hasCategory
    /\ mpc = "crashed" /\ exitCode = 1

\* C8: the sheet name of a category is the category with every "System"
\* replaced by "System Files", then the three exact-match overrides; a
\* category containing "System" triggers no override; "Core System",
\* "Ship System" and "Visual Effects" give "Core System Files",
\* "Ship System Files" and "Visual Effects Files".
C8_SheetNames ==
    \A i \in 2..Len(writeLog) :
        LET c == writeLog[i].category
            n == writeLog[i].sheet_name
        IN  /\ c = "Core System" => n = "Core System Files"
            /\ c = "Ship System" => n = "Ship System Files"
            /\ c = "Visual Effects" => n = "Visual Effects Files"
            /\ c = "Core Files" => n = "Core System Files"
            /\ c = "Content Management" => n = "Content Management Files"
            /\ c = "Sub System System" => n = "Sub System Files System Files"
            /\ c = "Introduction" => n = "Introduction"
            /\ Contains(c, "System") =>
                   /\ Len(n) = Len(c) + 6 * Occurrences(c, "System")
                   /\ Occurrences(n, "System Files") = Occurrences(c, "System")
                   /\ Occurrences(n, "System") = Occurrences(c, "System")
                   /\ n \notin {"Core Files", "Visual Effects", "Content Management"}

\* The run of scenario 3 and its four sheets.
C8_Witness ==
    /\ prog = "merger" /\ mpc = "done"
    /\ csv.cats = <<"Core System", "Ship System", "Visual Effects">>
    /\ [i \in 1..Len(book) |-> book[i].name] =
           <<"Introduction", "Core System Files", "Ship System Files",
             "Visual Effects Files">>

\* C9: the sheet names passed to to_excel in one run are pairwise distinct.
C9_DistinctSheetNames ==
    \A i, j \in 1..Len(writeLog) :
        i # j => writeLog[i].sheet_name # writeLog[j].sheet_name

----------------------------------------------------------------------------
\* Properties of convert_excel_to_csv

\* The file stems of the sheets of the workbook.
Stems == {clean_filename(wb.sheets[i]) : i \in 1..Len(wb.sheets)}

DistinctStems ==
    \A i, j \in 1..Len(wb.sheets) :
        i # j => clean_filename(wb.sheets[i]) # clean_filename(wb.sheets[j])

\* Index of the last sheet among the first n whose stem is st.
LastWithStem(st, n) ==
    CHOOSE i \in 1..n :
        /\ clean_filename(wb.sheets[i]) = st
        /\ \A j \in (i + 1)..n : clean_filename(wb.sheets[j]) # st

\* The expected image of one character under clean_filename.
LettersAndDigits ==
    "0123456789abcdefghijklmnopqrstuvwxyzABCDEFGHIJKLMNOPQRSTUVWXYZ" \o EAcute

CleanChar(c) ==
    IF c = " " \/ c = "_" THEN "_"
    ELSE IF \E i \in 1..Len(LettersAndDigits) : SubSeq(LettersAndDigits, i, i) = c
         THEN c ELSE ""

RECURSIVE Concat(_, _)
Concat(f, n) == IF n = 0 THEN "" ELSE Concat(f, n - 1) \o f[n]

\* C3: a successful run on a workbook of N sheets with pairwise distinct
\* stems leaves exactly N files, one per sheet and complete, visited in sheet
\* order, and returns (True, message reporting N).
C3_OneFilePerSheet ==
    (prog = "splitter" /\ spc = "returned" /\ result[1] /\ DistinctStems) =>
        LET N == Len(wb.sheets)
        IN  /\ Cardinality(DOMAIN files) = N
            /\ \A i \in 1..N :
                   /\ clean_filename(wb.sheets[i]) \in DOMAIN files
                   /\ files[clean_filename(wb.sheets[i])] =
                          [sheet |-> wb.sheets[i], complete |-> TRUE]
            /\ [i \in 1..Len(cleanLog) |-> cleanLog[i][1]] = wb.sheets
            /\ result = <<TRUE, "Successfully converted " \o ToString(N)
                                    \o " sheets to CSV">>

C3_Witness ==
    /\ prog = "splitter" /\ spc = "returned" /\ result[1]
    /\ Len(wb.sheets) = MaxSheets /\ DistinctStems
    /\ Cardinality(DOMAIN files) = MaxSheets

\* C4: the function never ends with an uncaught error; a failure at any step
\* gives (False, message containing the error text), mapped to exit status
\* 1, and the files of the sheets converted before the failure still exist.
C4_FailureIsReported ==
    prog = "splitter" =>
        /\ spc # "crashed"
        /\ (spc = "returned" /\ ~result[1]) =>
               /\ \E cls \in DOMAIN ErrText : Contains(result[2], ErrText[cls])
               /\ (k < Len(wb.sheets) \/ wb.sheets = <<>>)
               /\ \A i \in 1..k : clean_filename(wb.sheets[i]) \in DOMAIN files
               /\ \A st \in DOMAIN files :
                      \/ /\ \E i \in 1..k : clean_filename(wb.sheets[i]) = st
                         /\ files[st] = [sheet |-> wb.sheets[LastWithStem(st, k)],
                                         complete |-> TRUE]
                      \/ /\ k < Len(wb.sheets)
                         /\ st = clean_filename(wb.sheets[k + 1])
                         /\ files[st] = [sheet |-> wb.sheets[k + 1],
                                         complete |-> FALSE]
        /\ exitCode # -1 => exitCode = (IF result[1] THEN 0 ELSE 1)

\* A failure on a later sheet, after an earlier sheet was written.
C4_Witness ==
    /\ prog = "splitter" /\ spc = "returned" /\ ~result[1]
    /\ k >= 1 /\ DOMAIN files # {}
    /\ exitCode = 1

\* C5: when two sheets have the same stem both are written to the same path
\* in sheet order: after a successful run one file exists per stem, holding
\* the data of the last sheet with that stem.
C5_LaterSheetOverwrites ==
    (prog = "splitter" /\ spc = "returned" /\ result[1]) =>
        /\ DOMAIN files = Stems
        /\ \A st \in Stems :
               files[st] = [sheet |-> wb.sheets[LastWithStem(st, Len(wb.sheets))],
                            complete |-> TRUE]
        /\ wb.sheets = <<"A B", "A_B">> =>
               /\ DOMAIN files = {"A_B"}
               /\ files["A_B"].sheet = "A_B"
        /\ wb.sheets = <<"A_B", "A B">> =>
               /\ DOMAIN files = {"A_B"}
               /\ files["A_B"].sheet = "A B"

C5_Witness ==
    /\ prog = "splitter" /\ spc = "returned" /\ result[1]
    /\ wb.sheets = <<"A B", "A_B">>
    /\ Cardinality(DOMAIN files) = 1

\* C7 as stated: the stem has every space replaced by an underscore and
\* keeps only ASCII letters, digits and underscores; hyphens and accented
\* letters are deleted.
C7_AccentedLettersDeleted ==
    \A i \in 1..Len(cleanLog) :
        LET safe == cleanLog[i][2]
        IN  \A j \in 1..Len(safe) :
                IsAsciiWordChar(CharAt(safe, j)) /\ CharAt(safe, j) # EAcute

\* C7 amended: the stem is the sheet name with every space replaced by an
\* underscore and every other character that is not a Unicode word
\* character (letter, digit, underscore) removed: hyphens are deleted,
\* accented letters are kept.
C7_CleanFilename ==
    \A i \in 1..Len(cleanLog) :
        LET sheet == cleanLog[i][1]
            safe == cleanLog[i][2]
        IN  /\ safe = Concat([j \in 1..Len(sheet) |-> CleanChar(CharAt(sheet, j))],
                             Len(sheet))
            /\ \A j \in 1..Len(safe) :
                   /\ CharAt(safe, j) \notin {" ", "-"}
                   /\ CleanChar(CharAt(safe, j)) = CharAt(safe, j)
            /\ sheet = "Main Data" => safe = "Main_Data"
            /\ sheet = "NPC-List" => safe = "NPCList"
            /\ sheet = "Caf" \o EAcute \o " 1" => safe = "Caf" \o EAcute \o "_1"

C7_Witness ==
    /\ Len(cleanLog) >= 1
    /\ \E i \in 1..Len(cleanLog) : cleanLog[i] = <<"Caf" \o EAcute \o " 1", "Caf" \o EAcute \o "_1">>

\* C10: when a converter has ended (return, (False, message) return or
\* propagated error) the handle it acquired is closed.
C10_HandlesReleased ==
    /\ (prog = "splitter" /\ spc \in {"returned", "crashed"}) => ~handleOpen
    /\ (prog = "merger" /\ mpc \in {"done", "crashed"}) => ~writerOpen
====
